---- MODULE Spec2Model ----
(***************************************************************************)
(* MillicastPublish (packages/millicast-sdk-js/src/MillicastPublish.js):   *)
(* one publisher object, its signaling instances, its peer wrapper, and    *)
(* the broadcast calls made on it.  An async broadcast call is one action  *)
(* for its synchronous prefix (up to the first await) and one action per   *)
(* continuation; every await either resolves or rejects.                   *)
(***************************************************************************)
EXTENDS Integers, Sequences, FiniteSets, TLC

\* Broadcast calls that may be pending (suspended at an await) at once.
MaxPending == 1
\* MillicastSignaling instances a behaviour may create.
MaxSignalings == 2

\* ------------------------------------------------------------------------
\* JavaScript values, written as strings.
Undefined == "undefined"
JsNull == "null"
NoError == "none"
TypeError == "TypeError"

\* `this.millicastSignaling = null`: 0 is null, k > 0 the k-th instance created.
NoSignaling == 0

\* ToBoolean
Truthy(v) == v \notin {"undefined", "null", "false", "0", ""}

\* ToNumber(v) > 0 (NaN compares false)
GreaterThanZero(v) ==
  CASE v = "undefined" -> FALSE
    [] v = "null" -> FALSE
    [] v = "false" -> FALSE
    [] v = "true" -> TRUE
    [] v = "0" -> FALSE
    [] v = "1000" -> TRUE
    [] OTHER -> FALSE

\* ------------------------------------------------------------------------
\* Inputs
StreamNames == {Undefined, "", "stream1"}
PublisherDatas == {Undefined, "pd1"}
MediaStreams == {Undefined, "ms1"}
Bandwidths == {Undefined, "0", "1000"}
Flags == {Undefined, "false", "true"}
Errors == {"NetworkError", "InvalidStateError"}
PeerStates == {"new", "connected"}

\* An SDP text is a sequence of lines, a line <<attribute, value>>.
AnswerPlain == << <<"m", "video">>, <<"c", "IN">>, <<"a", "mid">> >>
AnswerLimited == << <<"m", "video">>, <<"c", "IN">>, <<"b", "1000">>, <<"a", "mid">> >>
Answers == {AnswerPlain, AnswerLimited}
NoSdp == << >>

\* The offer getRTCLocalSDP creates for the call in slot c.
Offer(c) == << <<"m", "video">>, <<"c", "IN">>, <<"a", "offer">>, <<"a", ToString(c)>> >>

\* The option objects an application may configure: disableVideo given or
\* not, with bandwidth or with disableAudio given or not.
OptionObjects ==
  {o \in [publisherData : {"pd1"}, mediaStream : {"ms1"},
          bandwidth : Bandwidths, disableVideo : Flags, disableAudio : Flags] :
     o.bandwidth = Undefined \/ o.disableAudio = Undefined}

\* The default parameter value of broadcast.
DefaultOptions ==
  [publisherData |-> JsNull, mediaStream |-> JsNull, bandwidth |-> "0",
   disableVideo |-> "false", disableAudio |-> "false"]

NoOptions ==
  [publisherData |-> Undefined, mediaStream |-> Undefined, bandwidth |-> Undefined,
   disableVideo |-> Undefined, disableAudio |-> Undefined]

NoOfferOptions == [offerToReceiveVideo |-> Undefined, offerToReceiveAudio |-> Undefined]

\* A broadcast call: where it is suspended, its argument, the collaborator
\* calls it has made, and its local values.
IdleCall ==
  [pc |-> "idle", noArg |-> FALSE, options |-> NoOptions, log |-> << >>,
   error |-> NoError, localSdp |-> NoSdp, published |-> NoSdp, answer |-> NoSdp,
   remoteSdp |-> NoSdp]

Slots == 1..MaxPending

VARIABLES
  appOptions,          \* the options object the application broadcasts with
  constructed,         \* a MillicastPublish object exists
  streamName,          \* this.streamName
  millicastSignaling,  \* this.millicastSignaling
  signalings,          \* every MillicastSignaling instance created, in order
  peerStatus,          \* webRTCPeer.getRTCPeerStatus(): "null" when no peer
  listeners,           \* forwarding listeners installed on webRTCPeer
  RTCOfferOptions,     \* webRTCPeer.RTCOfferOptions
  calls,               \* the pending broadcast calls, by slot
  lastOp               \* the operation that made the last step, and its outcome

vars == <<appOptions, constructed, streamName, millicastSignaling, signalings, peerStatus,
          listeners, RTCOfferOptions, calls, lastOp>>

publisherVars == <<constructed, streamName, millicastSignaling, signalings>>
peerVars == <<peerStatus, listeners, RTCOfferOptions>>

\* op: the operation; arg: its argument; n: a count or instance it names;
\* result: what it returned or threw; call: the broadcast call it ended.
Op(op, arg, n, result, call) ==
  [op |-> op, arg |-> arg, n |-> n, result |-> result, call |-> call]

Init ==
  /\ appOptions \in OptionObjects
  /\ constructed = FALSE
  /\ streamName = Undefined
  /\ millicastSignaling = NoSignaling
  /\ signalings = << >>
  /\ peerStatus = JsNull
  /\ listeners = 0
  /\ RTCOfferOptions = NoOfferOptions
  /\ calls = [c \in Slots |-> IdleCall]
  /\ lastOp = Op("init", "", 0, "", IdleCall)

\* ------------------------------------------------------------------------
\* Collaborators: MillicastWebRTC (the peer wrapper) and MillicastSignaling.

\* webRTCPeer.getRTCPeer(): the peer connection, created when there is none.
getRTCPeer(status) == IF status = JsNull THEN "new" ELSE status

\* webRTCPeer.closeRTCPeer(): the peer connection is closed and dropped.
closeRTCPeer(status) == JsNull

WithoutBandwidth(sdp) == SelectSeq(sdp, LAMBDA l : l[1] # "b")

ConnectionLine(sdp) == CHOOSE i \in 0..Len(sdp) :
  /\ i > 0 => sdp[i][1] = "c"
  /\ \A j \in 1..Len(sdp) : sdp[j][1] = "c" => (i > 0 /\ i <= j)

\* webRTCPeer.updateBandwidthRestriction(sdp, bitrate): the bandwidth line of
\* the text is replaced by one for `bitrate` (dropped when bitrate is 0).
updateBandwidthRestriction(sdp, bitrate) ==
  LET s == WithoutBandwidth(sdp)
      i == ConnectionLine(s)
  IN IF GreaterThanZero(bitrate)
       THEN SubSeq(s, 1, i) \o << <<"b", bitrate>> >> \o SubSeq(s, i + 1, Len(s))
       ELSE s

\* new MillicastSignaling({ streamName, url })
NewSignaling(name, publisherData) ==
  [streamName |-> name, url |-> <<publisherData, "urls[0]", "?token=", "jwt">>,
   closed |-> FALSE]

\* ------------------------------------------------------------------------
\* MillicastPublish

\* The constructor testing `streamName === undefined` instead of `!streamName`.
ConstructorThrowsUndefinedOnly(name) == name = Undefined

\* constructor: `if (!streamName) throw`
ConstructorThrows(name) == ~Truthy(name)

Constructor(name) ==
  /\ UNCHANGED appOptions
  /\ ~constructed
  /\ IF ConstructorThrows(name)
       THEN /\ lastOp' = Op("constructor", name, 0,
                            "Stream Name is required to construct a publisher.", IdleCall)
            /\ UNCHANGED <<publisherVars, peerVars, calls>>
       ELSE /\ constructed' = TRUE
            /\ peerStatus' = JsNull
            /\ listeners' = 0
            /\ RTCOfferOptions' = NoOfferOptions
            /\ millicastSignaling' = NoSignaling
            /\ streamName' = name
            /\ lastOp' = Op("constructor", name, 0, "constructed", IdleCall)
            /\ UNCHANGED <<signalings, calls>>

\* isActive testing that there is a peer status at all.
isActiveAnyStatus(rtcPeerState) == rtcPeerState # JsNull

\* isActive(): rtcPeerState === 'connected'
isActive(rtcPeerState) == rtcPeerState = "connected"

IsActive ==
  /\ UNCHANGED appOptions
  /\ constructed
  /\ lastOp' = Op("isActive", peerStatus, 0,
                  IF isActive(peerStatus) THEN "true" ELSE "false", IdleCall)
  /\ UNCHANGED <<publisherVars, peerVars, calls>>

\* `this.millicastSignaling.close()`, without the optional chaining.
RequiredClose(sigs, sig) ==
  IF sig = NoSignaling
    THEN [threw |-> TRUE, sigs |-> sigs]
    ELSE [threw |-> FALSE, sigs |-> [sigs EXCEPT ![sig].closed = TRUE]]

\* `this.millicastSignaling?.close()`: whether it throws, and the instances after.
OptionalClose(sigs, sig) ==
  IF sig = NoSignaling
    THEN [threw |-> FALSE, sigs |-> sigs]
    ELSE [threw |-> FALSE, sigs |-> [sigs EXCEPT ![sig].closed = TRUE]]

\* stop()
Stop ==
  /\ UNCHANGED appOptions
  /\ constructed
  /\ peerStatus' = closeRTCPeer(peerStatus)
  /\ LET r == OptionalClose(signalings, millicastSignaling)
     IN IF r.threw
          THEN /\ lastOp' = Op("stop", "closeRTCPeer", millicastSignaling, TypeError, IdleCall)
               /\ UNCHANGED <<signalings, millicastSignaling>>
          ELSE /\ signalings' = r.sigs
               /\ millicastSignaling' = NoSignaling
               /\ lastOp' = Op("stop", "closeRTCPeer", millicastSignaling, "returned",
                               IdleCall)
  /\ UNCHANGED <<constructed, streamName, listeners, RTCOfferOptions, calls>>

\* The guards of broadcast without the isActive() guard.
BroadcastGuardsNoActiveGuard(options, status) ==
  IF ~Truthy(options.publisherData)
    THEN [error |-> "Publisher data required", log |-> << >>]
  ELSE IF ~Truthy(options.mediaStream)
    THEN [error |-> "MediaStream required", log |-> << >>]
  ELSE [error |-> NoError, log |-> << >>]

\* The guards of broadcast with the isActive() guard first.
BroadcastGuardsActiveFirst(options, status) ==
  IF isActive(status)
    THEN [error |-> "Broadcast currently working", log |-> <<"getRTCPeerStatus">>]
  ELSE IF ~Truthy(options.publisherData)
    THEN [error |-> "Publisher data required", log |-> <<"getRTCPeerStatus">>]
  ELSE IF ~Truthy(options.mediaStream)
    THEN [error |-> "MediaStream required", log |-> <<"getRTCPeerStatus">>]
  ELSE [error |-> NoError, log |-> <<"getRTCPeerStatus">>]

\* The guards of broadcast, in order: the error thrown (NoError when none)
\* and the peer methods called on the way.
BroadcastGuards(options, status) ==
  IF ~Truthy(options.publisherData)
    THEN [error |-> "Publisher data required", log |-> << >>]
  ELSE IF ~Truthy(options.mediaStream)
    THEN [error |-> "MediaStream required", log |-> << >>]
  ELSE IF isActive(status)
    THEN [error |-> "Broadcast currently working", log |-> <<"getRTCPeerStatus">>]
  ELSE [error |-> NoError, log |-> <<"getRTCPeerStatus">>]

FreeSlots == {c \in Slots : calls[c].pc = "idle"}

\* broadcast(options), up to its first await: called with no argument, or
\* with the application's options and the given publisherData and mediaStream.
BroadcastCall(noArg, publisherData, mediaStream) ==
  /\ UNCHANGED appOptions
  /\ constructed
  /\ LET options == IF noArg THEN DefaultOptions
                    ELSE [appOptions EXCEPT !.publisherData = publisherData,
                                            !.mediaStream = mediaStream]
         g == BroadcastGuards(options, peerStatus)
         call == [IdleCall EXCEPT !.noArg = noArg, !.options = options,
                                  !.log = g.log, !.error = g.error]
     IN IF g.error # NoError
          THEN /\ lastOp' = Op("broadcast", "", 0, g.error, [call EXCEPT !.pc = "rejected"])
               /\ UNCHANGED <<publisherVars, peerVars, calls>>
          ELSE /\ FreeSlots # {}
               /\ Len(signalings) < MaxSignalings
               /\ LET c == CHOOSE f \in FreeSlots : \A x \in FreeSlots : f <= x
                      started == [call EXCEPT
                                    !.pc = "awaitGetRTCPeer",
                                    !.log = @ \o <<"new MillicastSignaling", "getRTCPeer">>]
                  IN /\ calls' = [calls EXCEPT ![c] = started]
                     /\ lastOp' = Op("broadcast", "", c, NoError, started)
               /\ signalings' = Append(signalings,
                                       NewSignaling(streamName, options.publisherData))
               /\ millicastSignaling' = Len(signalings) + 1
               /\ UNCHANGED <<constructed, streamName, peerVars>>

\* A rejected publish caught and logged: the call goes on to setRTCRemoteSDP.
RejectedPublishCaught(c, at, e) ==
  /\ UNCHANGED appOptions
  /\ calls[c].pc = at
  /\ calls' = [calls EXCEPT ![c] =
                 IF at = "awaitPublish"
                   THEN [calls[c] EXCEPT !.pc = "awaitSetRTCRemoteSDP",
                                         !.log = @ \o <<"setRTCRemoteSDP">>]
                   ELSE IdleCall]
  /\ lastOp' = Op("reject", at, c, e,
                  IF at = "awaitPublish"
                    THEN [calls[c] EXCEPT !.pc = "awaitSetRTCRemoteSDP",
                                          !.log = @ \o <<"setRTCRemoteSDP">>]
                    ELSE [calls[c] EXCEPT !.pc = "rejected", !.error = e])
  /\ UNCHANGED <<publisherVars, peerVars>>

\* An awaited promise rejects with e: the call rejects with that error.
Rejected(c, at, e) ==
  /\ UNCHANGED appOptions
  /\ calls[c].pc = at
  /\ calls' = [calls EXCEPT ![c] = IdleCall]
  /\ lastOp' = Op("reject", at, c, e, [calls[c] EXCEPT !.pc = "rejected", !.error = e])
  /\ UNCHANGED <<publisherVars, peerVars>>

\* `!v` answering true for the value false only.
JsNotOfFalseOnly(v) == IF v = "false" THEN "true" ELSE "false"

\* `!v`
JsNot(v) == IF Truthy(v) THEN "false" ELSE "true"

\* No reemit: no listener is installed.
ReemitMissing(n) == n

\* reemit(this.webRTCPeer, this, [connectionStateChange]): one more listener.
Reemit(n) == n + 1

\* getRTCPeer resolved: forward events, set the offer options, ask for the offer.
GetRTCPeerResolved(c) ==
  /\ UNCHANGED appOptions
  /\ calls[c].pc = "awaitGetRTCPeer"
  /\ peerStatus' = getRTCPeer(peerStatus)
  /\ listeners' = Reemit(listeners)
  /\ RTCOfferOptions' =
       [offerToReceiveVideo |-> JsNot(calls[c].options.disableVideo),
        offerToReceiveAudio |-> JsNot(calls[c].options.disableAudio)]
  /\ calls' = [calls EXCEPT ![c].pc = "awaitGetRTCLocalSDP",
                            ![c].log = @ \o <<"reemit", "getRTCLocalSDP">>]
  /\ lastOp' = Op("resolve", "getRTCPeer", c, "", IdleCall)
  /\ UNCHANGED publisherVars

\* getRTCLocalSDP resolved with the offer: this.millicastSignaling.publish(offer)
GetRTCLocalSDPResolved(c) ==
  /\ UNCHANGED appOptions
  /\ calls[c].pc = "awaitGetRTCLocalSDP"
  /\ IF millicastSignaling = NoSignaling
       THEN /\ calls' = [calls EXCEPT ![c] = IdleCall]
            /\ lastOp' = Op("resolve", "getRTCLocalSDP", c, TypeError,
                            [calls[c] EXCEPT !.pc = "rejected", !.error = TypeError,
                                             !.localSdp = Offer(c)])
       ELSE /\ calls' = [calls EXCEPT ![c].pc = "awaitPublish",
                                      ![c].localSdp = Offer(c),
                                      ![c].published = Offer(c),
                                      ![c].log = @ \o <<"publish">>]
            /\ lastOp' = Op("resolve", "getRTCLocalSDP", c, "", IdleCall)
  /\ UNCHANGED <<publisherVars, peerVars>>

\* `options.bandwidth > 0`, whatever disableVideo.
ShouldRewriteAnyVideo(options) == GreaterThanZero(options.bandwidth)

\* `!options.disableVideo && options.bandwidth > 0`
ShouldRewrite(options) ==
  ~Truthy(options.disableVideo) /\ GreaterThanZero(options.bandwidth)

\* publish resolved, and broadcast resolves without calling setRTCRemoteSDP.
PublishResolvedWithoutRemoteSDP(c, answer) ==
  /\ UNCHANGED appOptions
  /\ calls[c].pc = "awaitPublish"
  /\ calls' = [calls EXCEPT ![c] = IdleCall]
  /\ lastOp' = Op("resolve", "publish", c, "",
                  [calls[c] EXCEPT !.pc = "resolved", !.answer = answer])
  /\ UNCHANGED <<publisherVars, peerVars>>

\* publish resolved with `answer`: rewrite it or not, then setRTCRemoteSDP.
PublishResolved(c, answer) ==
  /\ UNCHANGED appOptions
  /\ calls[c].pc = "awaitPublish"
  /\ LET rewrite == ShouldRewrite(calls[c].options)
         remoteSdp == IF rewrite
                        THEN updateBandwidthRestriction(answer, calls[c].options.bandwidth)
                        ELSE answer
     IN calls' = [calls EXCEPT
                    ![c].pc = "awaitSetRTCRemoteSDP",
                    ![c].answer = answer,
                    ![c].remoteSdp = remoteSdp,
                    ![c].log = @ \o (IF rewrite THEN <<"updateBandwidthRestriction">>
                                                ELSE << >>)
                                 \o <<"setRTCRemoteSDP">>]
  /\ lastOp' = Op("resolve", "publish", c, "", IdleCall)
  /\ UNCHANGED <<publisherVars, peerVars>>

\* setRTCRemoteSDP resolved: broadcast resolves.
SetRTCRemoteSDPResolved(c) ==
  /\ UNCHANGED appOptions
  /\ calls[c].pc = "awaitSetRTCRemoteSDP"
  /\ calls' = [calls EXCEPT ![c] = IdleCall]
  /\ lastOp' = Op("resolve", "setRTCRemoteSDP", c, "", [calls[c] EXCEPT !.pc = "resolved"])
  /\ UNCHANGED <<publisherVars, peerVars>>

\* The peer wrapper emits connectionStateChange; each forwarding listener
\* makes the publisher emit it once.
ConnectionStateChange(s) ==
  /\ UNCHANGED appOptions
  /\ constructed
  /\ peerStatus # JsNull
  /\ s # peerStatus
  /\ peerStatus' = s
  /\ lastOp' = Op("connectionStateChange", s, listeners, "", IdleCall)
  /\ UNCHANGED <<publisherVars, listeners, RTCOfferOptions, calls>>

Awaits == {"awaitGetRTCPeer", "awaitGetRTCLocalSDP", "awaitPublish", "awaitSetRTCRemoteSDP"}

Next ==
  \/ \E name \in StreamNames : Constructor(name)
  \/ IsActive
  \/ Stop
  \/ BroadcastCall(TRUE, Undefined, Undefined)
  \/ \E pd \in PublisherDatas, ms \in MediaStreams : BroadcastCall(FALSE, pd, ms)
  \/ \E c \in Slots, at \in Awaits, e \in Errors : Rejected(c, at, e)
  \/ \E c \in Slots : GetRTCPeerResolved(c)
  \/ \E c \in Slots : GetRTCLocalSDPResolved(c)
  \/ \E c \in Slots, answer \in Answers : PublishResolved(c, answer)
  \/ \E c \in Slots : SetRTCRemoteSDPResolved(c)
  \/ \E s \in PeerStates : ConnectionStateChange(s)

Spec == Init /\ [][Next]_vars

\* ------------------------------------------------------------------------
\* Properties

\* Every broadcast call the state knows: the pending ones and the one the
\* last step started or ended.
Records == {calls[c] : c \in Slots} \cup {lastOp.call}

Has(log, x) == \E i \in 1..Len(log) : log[i] = x
Count(log, x) == Cardinality({i \in 1..Len(log) : log[i] = x})
\* The position of the first x in log (0 when there is none).
Index(log, x) ==
  IF Has(log, x) THEN CHOOSE i \in 1..Len(log) : log[i] = x /\ \A j \in 1..(i - 1) : log[j] # x
                 ELSE 0
Before(log, x, y) == Has(log, x) /\ Index(log, x) < Index(log, y)

Negotiation == {"getRTCPeer", "getRTCLocalSDP", "publish", "setRTCRemoteSDP"}
NegotiationCalls(log) == SelectSeq(log, LAMBDA x : x \in Negotiation)

\* C1: a broadcast call that resolves has called getRTCPeer, getRTCLocalSDP,
\* publish and setRTCRemoteSDP once each, in that order, has published the
\* offer getRTCLocalSDP gave it and has set the answer publish returned
\* (rewritten or not); no call calls setRTCRemoteSDP before publish has
\* returned an answer, nor publish before it has the local offer.
C1_NegotiationOrder ==
  \A r \in Records :
    /\ r.pc = "resolved" =>
         /\ NegotiationCalls(r.log) =
              <<"getRTCPeer", "getRTCLocalSDP", "publish", "setRTCRemoteSDP">>
         /\ r.localSdp # NoSdp
         /\ r.published = r.localSdp
         /\ r.answer \in Answers
         /\ r.remoteSdp \in {r.answer,
                             updateBandwidthRestriction(r.answer, r.options.bandwidth)}
    /\ Has(r.log, "setRTCRemoteSDP") =>
         r.answer \in Answers /\ Before(r.log, "publish", "setRTCRemoteSDP")
    /\ Has(r.log, "publish") =>
         r.localSdp # NoSdp /\ Before(r.log, "getRTCLocalSDP", "publish")

C1_Witness ==
  /\ lastOp.op = "resolve"
  /\ lastOp.arg = "setRTCRemoteSDP"
  /\ lastOp.call.pc = "resolved"

\* A value the caller did not give.
Missing(v) == v \in {Undefined, JsNull}
Given(options) == ~Missing(options.publisherData) /\ ~Missing(options.mediaStream)

\* C2: a broadcast call with publisherData and mediaStream made while the
\* peer status is 'connected' rejects with 'Broadcast currently working',
\* calls no peer method but the status query, and leaves the publisher, its
\* signaling instances, the peer wrapper and the pending calls as they were.
C2_ActiveBroadcastRejected ==
  [][(lastOp'.op = "broadcast" /\ Given(lastOp'.call.options) /\ peerStatus = "connected")
       => /\ lastOp'.result = "Broadcast currently working"
          /\ lastOp'.call.pc = "rejected"
          /\ lastOp'.call.error = "Broadcast currently working"
          /\ lastOp'.call.log = <<"getRTCPeerStatus">>
          /\ UNCHANGED <<publisherVars, peerVars, calls>>]_vars

C2_Witness ==
  /\ lastOp.op = "broadcast"
  /\ Given(lastOp.call.options)
  /\ lastOp.result = "Broadcast currently working"
  /\ peerStatus = "connected"
  /\ millicastSignaling # NoSignaling

\* C3: a broadcast call without publisherData (or with no argument) rejects
\* with 'Publisher data required', one with publisherData but without
\* mediaStream with 'MediaStream required'; whatever the peer status, it
\* calls no peer method and leaves the publisher, its signaling instances,
\* the peer wrapper and the pending calls as they were.
C3_ValidationFirst ==
  [][(lastOp'.op = "broadcast" /\ ~Given(lastOp'.call.options))
       => /\ lastOp'.result = IF Missing(lastOp'.call.options.publisherData)
                                THEN "Publisher data required"
                                ELSE "MediaStream required"
          /\ lastOp'.call.pc = "rejected"
          /\ lastOp'.call.error = lastOp'.result
          /\ lastOp'.call.log = << >>
          /\ UNCHANGED <<publisherVars, peerVars, calls>>]_vars

C3_Witness ==
  /\ lastOp.op = "broadcast"
  /\ lastOp.call.noArg
  /\ lastOp.result = "Publisher data required"
  /\ peerStatus = "connected"
  /\ millicastSignaling # NoSignaling

\* C4: the SDP a broadcast call gives to setRTCRemoteSDP is
\* updateBandwidthRestriction(answer, bandwidth) when disableVideo is false
\* (or omitted) and bandwidth is positive, and the answer itself otherwise;
\* updateBandwidthRestriction is called in the first case only.
C4_BandwidthRewrite ==
  \A r \in Records :
    Has(r.log, "setRTCRemoteSDP") =>
      LET rewritten == /\ r.options.disableVideo \in {Undefined, "false"}
                       /\ r.options.bandwidth = "1000"
      IN /\ Has(r.log, "updateBandwidthRestriction") <=> rewritten
         /\ r.remoteSdp = IF rewritten
                            THEN updateBandwidthRestriction(r.answer, r.options.bandwidth)
                            ELSE r.answer

C4_Witness ==
  /\ lastOp.call.pc = "resolved"
  /\ lastOp.call.options.disableVideo = "true"
  /\ lastOp.call.options.bandwidth = "1000"
  /\ lastOp.call.remoteSdp = lastOp.call.answer
  /\ lastOp.call.answer = AnswerPlain

\* C5: isActive() returns true exactly when the peer status is 'connected',
\* and changes nothing.
C5_IsActive ==
  [][lastOp'.op = "isActive"
       => /\ lastOp'.result = IF peerStatus = "connected" THEN "true" ELSE "false"
          /\ UNCHANGED <<publisherVars, peerVars, calls>>]_vars

C5_Witness ==
  /\ lastOp.op = "isActive"
  /\ lastOp.result = "false"
  /\ peerStatus = "new"

\* C6: when stop() has returned, closeRTCPeer has been called and there is no
\* peer, the signaling instance the publisher referenced is closed, and
\* millicastSignaling is null; stop() never throws.
C6_StopReleases ==
  lastOp.op = "stop" =>
    /\ lastOp.result = "returned"
    /\ lastOp.arg = "closeRTCPeer"
    /\ peerStatus = JsNull
    /\ millicastSignaling = NoSignaling
    /\ lastOp.n # NoSignaling => signalings[lastOp.n].closed

C6_Witness ==
  /\ lastOp.op = "stop"
  /\ lastOp.n # NoSignaling
  /\ \E c \in Slots : calls[c].pc = "awaitPublish"

\* C7: the constructor throws for a missing or empty stream name and leaves
\* no publisher; otherwise the publisher has millicastSignaling = null, a
\* fresh peer wrapper and the stream name given, and every signaling
\* instance broadcast creates carries that stream name.
C7_Constructor ==
  /\ lastOp.op = "constructor" =>
       IF lastOp.arg \in {Undefined, ""}
         THEN /\ lastOp.result = "Stream Name is required to construct a publisher."
              /\ ~constructed
         ELSE /\ lastOp.result = "constructed"
              /\ constructed
              /\ streamName = lastOp.arg
              /\ millicastSignaling = NoSignaling
              /\ peerStatus = JsNull /\ listeners = 0 /\ RTCOfferOptions = NoOfferOptions
  /\ ~constructed => signalings = << >>
  /\ \A i \in 1..Len(signalings) :
       signalings[i].streamName = streamName /\ streamName \notin {Undefined, ""}

C7_Witness ==
  /\ Len(signalings) = MaxSignalings
  /\ \A i \in 1..Len(signalings) : signalings[i].streamName = "stream1"

\* C8: a broadcast call installs the forwarding of connectionStateChange
\* after getRTCPeer and before it asks for the local offer, and once a call
\* has got that far (the offer options are set) every connectionStateChange
\* the peer wrapper emits is emitted by the publisher too.
C8_EventsForwarded ==
  /\ \A r \in Records :
       Has(r.log, "getRTCLocalSDP") =>
         Before(r.log, "getRTCPeer", "reemit") /\ Before(r.log, "reemit", "getRTCLocalSDP")
  /\ (lastOp.op = "connectionStateChange" /\ RTCOfferOptions # NoOfferOptions)
       => lastOp.n >= 1

C8_Witness ==
  /\ lastOp.op = "connectionStateChange"
  /\ lastOp.n >= 1
  /\ \E c \in Slots : calls[c].pc = "awaitGetRTCLocalSDP"

\* C10: when an awaited step of broadcast rejects, the call rejects with that
\* error and has made no call after the failed one: no publish when the offer
\* failed, no updateBandwidthRestriction and no setRTCRemoteSDP when publish
\* failed; nothing of the call is left to run.
C10_FailurePropagates ==
  lastOp.op = "reject" =>
    /\ lastOp.call.pc = "rejected"
    /\ lastOp.call.error = lastOp.result
    /\ lastOp.result \in Errors
    /\ calls[lastOp.n].pc = "idle"
    /\ ~Has(lastOp.call.log, "updateBandwidthRestriction")
         \/ lastOp.arg = "awaitSetRTCRemoteSDP"
    /\ NegotiationCalls(lastOp.call.log) =
         CASE lastOp.arg = "awaitGetRTCPeer" -> <<"getRTCPeer">>
           [] lastOp.arg = "awaitGetRTCLocalSDP" -> <<"getRTCPeer", "getRTCLocalSDP">>
           [] lastOp.arg = "awaitPublish" -> <<"getRTCPeer", "getRTCLocalSDP", "publish">>
           [] lastOp.arg = "awaitSetRTCRemoteSDP" ->
                <<"getRTCPeer", "getRTCLocalSDP", "publish", "setRTCRemoteSDP">>

C10_Witness ==
  /\ lastOp.op = "reject"
  /\ lastOp.arg = "awaitPublish"
  /\ lastOp.result = "NetworkError"
  /\ lastOp.call.error = "NetworkError"

\* An options object that gives publisherData and mediaStream only.
OnlyRequired(options) ==
  /\ Given(options)
  /\ options.bandwidth = Undefined
  /\ options.disableVideo = Undefined
  /\ options.disableAudio = Undefined

\* C11: in the step in which a broadcast call asks for the local offer, the
\* peer's RTCOfferOptions are offerToReceiveVideo = not disableVideo and
\* offerToReceiveAudio = not disableAudio of that call's options (an omitted
\* flag counting as false); a call whose options give publisherData and
\* mediaStream only sets both flags true, never calls
\* updateBandwidthRestriction, and sets the answer as it was published.
C11_OfferOptions ==
  /\ [][\A c \in Slots :
          (~Has(calls[c].log, "getRTCLocalSDP") /\ Has(calls'[c].log, "getRTCLocalSDP"))
            => LET o == calls'[c].options
               IN /\ RTCOfferOptions'.offerToReceiveVideo =
                       (IF o.disableVideo = "true" THEN "false" ELSE "true")
                  /\ RTCOfferOptions'.offerToReceiveAudio =
                       (IF o.disableAudio = "true" THEN "false" ELSE "true")
                  /\ OnlyRequired(o) =>
                       RTCOfferOptions' = [offerToReceiveVideo |-> "true",
                                           offerToReceiveAudio |-> "true"]]_vars
  /\ [](\A r \in Records :
          (OnlyRequired(r.options) /\ Has(r.log, "setRTCRemoteSDP"))
            => ~Has(r.log, "updateBandwidthRestriction") /\ r.remoteSdp = r.answer)

C11_Witness ==
  /\ lastOp.call.pc = "resolved"
  /\ OnlyRequired(lastOp.call.options)
  /\ RTCOfferOptions = [offerToReceiveVideo |-> "true", offerToReceiveAudio |-> "true"]
  /\ lastOp.call.answer = AnswerLimited
  /\ lastOp.call.remoteSdp = AnswerLimited

\* The signaling instances created and not yet closed.
OpenSignalings == {i \in 1..Len(signalings) : ~signalings[i].closed}

\* C12: every signaling instance created and not yet closed is the one
\* millicastSignaling references, so at most one is open and none is orphaned.
C12_NoOrphanSignaling ==
  /\ \A i \in OpenSignalings : millicastSignaling = i
  /\ Cardinality(OpenSignalings) <= 1

\* The call in slot c makes the collaborator call x in this step.
Calls(c, x) == ~Has(calls[c].log, x) /\ Has(calls'[c].log, x)

\* C13: a broadcast call resumed after stop() never calls publish on a null
\* millicastSignaling (which throws a TypeError) and never calls
\* setRTCRemoteSDP when stop() has closed the peer.
C13_StopDuringBroadcast ==
  [][/\ ~(lastOp'.op = "resolve" /\ lastOp'.arg = "getRTCLocalSDP"
            /\ lastOp'.result = TypeError)
     /\ \A c \in Slots : Calls(c, "publish") => millicastSignaling # NoSignaling
     /\ \A c \in Slots : Calls(c, "setRTCRemoteSDP") => peerStatus # JsNull]_vars

\* C14: the peer wrapper never carries more than one forwarding listener,
\* and each connectionStateChange it emits is emitted by the publisher once.
C14_ForwardedOnce ==
  /\ listeners <= 1
  /\ lastOp.op = "connectionStateChange" => lastOp.n = 1

====
